---- MODULE Spec2Model ----
(***************************************************************************)
(* Model of the LyCORIS preset configuration subsystem:                    *)
(*   src/lycoris/config_sdk.py  (ALGO_REGISTRY, AlgoOverride, PresetConfig,*)
(*                               describe_algo)                            *)
(*   src/lycoris/config.py      (BUILTIN_PRESET_CONFIGS, PRESET,           *)
(*                               list_builtin_presets)                     *)
(*   src/lycoris/utils/preset.py (read_preset)                             *)
(*                                                                         *)
(* Python values are tagged records.  A str is a sequence of one-character *)
(* strings so that str.lower() can be computed.  Dict keys (preset keys,   *)
(* option names, module names) are never case-converted by the code and    *)
(* are kept as plain strings.  An ordered dict is a sequence of            *)
(* <<key, value>> pairs with distinct keys (insertion order).  A list that *)
(* is reachable from more than one owner is a reference Ref(l) into the    *)
(* variable heap; a list with one owner is the value List(items).          *)
(***************************************************************************)
EXTENDS Integers, Sequences, FiniteSets, TLC

VARIABLES
    heap,        \* shared list objects: location -> sequence of strings
    ov,          \* an AlgoOverride object the caller holds
    vres,        \* outcome of the last AlgoOverride.validate() call
    dres,        \* outcomes of the describe_algo calls made so far, in order
    registry,    \* the process-wide ALGO_REGISTRY
    raw,         \* the caller-owned raw preset mapping: key -> value
    res,         \* outcome of the PresetConfig.from_dict call on raw
    last,        \* outcome of the last to_dict / list_algorithms call on the preset
    file,        \* what toml.load makes of the preset path
    rp,          \* outcome of read_preset
    objects,     \* the PresetConfig objects of the catalog: object -> fields
    views,       \* per caller, the dict list_builtin_presets returned to it
    seen,        \* per caller, what its last lookup showed of every preset
    PRESET,      \* config.PRESET, the exports made at import
    nmut         \* number of caller mutations so far

vars == <<heap, ov, vres, dres, registry, raw, res, last, file, rp,
          objects, views, seen, PRESET, nmut>>
catalogVars == <<objects, views, seen, PRESET, nmut>>
algoVars == <<ov, vres, dres>>
parseVars == <<raw, res, last>>
fileVars == <<file, rp>>

---------------------------------------------------------------------------
(* Python values *)

None == [t |-> "none"]
Bool(b) == [t |-> "bool", b |-> b]
IntV(i) == [t |-> "int", i |-> i]
Str(s) == [t |-> "str", s |-> s]
Ref(l) == [t |-> "ref", loc |-> l]
List(xs) == [t |-> "list", items |-> xs]
Dict(ps) == [t |-> "dict", pairs |-> ps]

\* bool(value): Python truthiness of the values that occur here
Truthy(h, v) ==
    CASE v.t = "none" -> FALSE
      [] v.t = "bool" -> v.b
      [] v.t = "int" -> v.i # 0
      [] v.t = "str" -> v.s # <<>>
      [] v.t = "ref" -> h[v.loc] # <<>>
      [] v.t = "list" -> v.items # <<>>
      [] v.t = "dict" -> v.pairs # <<>>

\* ordered-dict helpers
Keys(ps) == {ps[i][1] : i \in 1..Len(ps)}
HasKey(ps, k) == k \in Keys(ps)
Get(ps, k) == ps[CHOOSE i \in 1..Len(ps) : ps[i][1] = k][2]
Without(ps, k) == SelectSeq(ps, LAMBDA p : p[1] # k)
\* d[k] = v : replaces in place, or appends a new key at the end
Put(ps, k, v) ==
    IF HasKey(ps, k)
    THEN [i \in 1..Len(ps) |-> IF ps[i][1] = k THEN <<k, v>> ELSE ps[i]]
    ELSE Append(ps, <<k, v>>)
SeqToSet(s) == {s[i] : i \in 1..Len(s)}

\* what Python's == sees of a value: lists by content, dicts without order
RECURSIVE Canon(_, _)
Canon(h, v) ==
    CASE v.t = "ref" -> List(h[v.loc])
      [] v.t = "dict" ->
            [t |-> "dict", map |-> [k \in Keys(v.pairs) |-> Canon(h, Get(v.pairs, k))]]
      [] OTHER -> v
CanonMapping(h, m) == [k \in DOMAIN m |-> Canon(h, m[k])]

\* copy.deepcopy(value): every list reached becomes a fresh, unshared list
RECURSIVE DeepCopyPairs(_, _)
DeepCopy(h, v) ==
    CASE v.t = "ref" -> List(h[v.loc])
      [] v.t = "dict" -> Dict(DeepCopyPairs(h, v.pairs))
      [] OTHER -> v
DeepCopyPairs(h, ps) ==
    IF ps = <<>> THEN <<>>
    ELSE <<(<<ps[1][1], DeepCopy(h, ps[1][2])>>)>> \o DeepCopyPairs(h, Tail(ps))

\* _copy_value with `if not value` in place of `if value is None`
_copy_value_dropping_falsy(h, value) ==
    IF ~Truthy(h, value) THEN None ELSE DeepCopy(h, value)

\* _copy_value
_copy_value(h, value) ==
    IF value = None THEN None ELSE DeepCopy(h, value)

---------------------------------------------------------------------------
(* str.lower() *)

LowerChar(c) ==
    CASE c = "A" -> "a" [] c = "B" -> "b" [] c = "C" -> "c" [] c = "D" -> "d"
      [] c = "E" -> "e" [] c = "F" -> "f" [] c = "G" -> "g" [] c = "H" -> "h"
      [] c = "I" -> "i" [] c = "J" -> "j" [] c = "K" -> "k" [] c = "L" -> "l"
      [] c = "M" -> "m" [] c = "N" -> "n" [] c = "O" -> "o" [] c = "P" -> "p"
      [] c = "Q" -> "q" [] c = "R" -> "r" [] c = "S" -> "s" [] c = "T" -> "t"
      [] c = "U" -> "u" [] c = "V" -> "v" [] c = "W" -> "w" [] c = "X" -> "x"
      [] c = "Y" -> "y" [] c = "Z" -> "z" [] OTHER -> c

lower(s) == [i \in 1..Len(s) |-> LowerChar(s[i])]

---------------------------------------------------------------------------
(* ALGO_REGISTRY *)

s_lora == <<"l", "o", "r", "a">>
s_locon == <<"l", "o", "c", "o", "n">>
s_loha == <<"l", "o", "h", "a">>
s_lokr == <<"l", "o", "k", "r">>
s_dylora == <<"d", "y", "l", "o", "r", "a">>
s_glora == <<"g", "l", "o", "r", "a">>
s_full == <<"f", "u", "l", "l">>
s_diag_oft == <<"d", "i", "a", "g", "-", "o", "f", "t">>
s_boft == <<"b", "o", "f", "t">>
s_ia3 == <<"i", "a", "3">>

AlgoSpec(n, args) == [name |-> n, supported_args |-> args, required_args |-> <<>>]

LoraArgs ==
    <<"dim", "alpha", "dropout", "rank_dropout", "module_dropout", "use_tucker",
      "use_scalar", "weight_decompose", "wd_on_output", "bypass_mode">>
LohaArgs ==
    <<"dim", "alpha", "dropout", "rank_dropout", "module_dropout", "use_tucker",
      "use_scalar", "weight_decompose", "wd_on_output">>
LokrArgs ==
    <<"dim", "alpha", "factor", "dropout", "rank_dropout", "module_dropout",
      "use_scalar", "full_matrix", "weight_decompose", "wd_on_output",
      "unbalanced_factorization">>
DyloraArgs ==
    <<"dim", "alpha", "block_size", "dropout", "rank_dropout", "module_dropout">>
BasicArgs == <<"dim", "alpha", "dropout", "rank_dropout", "module_dropout">>
OftArgs == <<"dim", "constraint", "rescaled">>

ALGO_REGISTRY ==
    (s_lora :> AlgoSpec(s_lora, LoraArgs))
    @@ (s_locon :> AlgoSpec(s_locon, LoraArgs))
    @@ (s_loha :> AlgoSpec(s_loha, LohaArgs))
    @@ (s_lokr :> AlgoSpec(s_lokr, LokrArgs))
    @@ (s_dylora :> AlgoSpec(s_dylora, DyloraArgs))
    @@ (s_glora :> AlgoSpec(s_glora, BasicArgs))
    @@ (s_full :> AlgoSpec(s_full, BasicArgs))
    @@ (s_diag_oft :> AlgoSpec(s_diag_oft, OftArgs))
    @@ (s_boft :> AlgoSpec(s_boft, OftArgs))
    @@ (s_ia3 :> AlgoSpec(s_ia3, <<>>))

---------------------------------------------------------------------------
(* Exceptions.  NoErr means the call returned normally. *)

NoErr == [exc |-> "", kind |-> "", keys |-> {}, algo |-> <<>>, key |-> ""]
UnknownKeysErr(ks) ==
    [exc |-> "PresetValidationError", kind |-> "UnknownPresetKeys", keys |-> ks,
     algo |-> <<>>, key |-> ""]
UnknownAlgoErr(a) ==
    [exc |-> "PresetValidationError", kind |-> "UnknownAlgorithm", keys |-> {},
     algo |-> a, key |-> ""]
UnsupportedOptionErr(a, k) ==
    [exc |-> "PresetValidationError", kind |-> "UnsupportedOption", keys |-> {},
     algo |-> a, key |-> k]
\* raised by the interpreter, not by the configuration layer
AttributeError ==
    [exc |-> "AttributeError", kind |-> "", keys |-> {}, algo |-> <<>>, key |-> ""]
TypeError ==
    [exc |-> "TypeError", kind |-> "", keys |-> {}, algo |-> <<>>, key |-> ""]

---------------------------------------------------------------------------
(* AlgoOverride *)

AlgoOverride(algo, options) == [algo |-> algo, options |-> options]

\* AlgoOverride.from_mapping: dict(mapping) is a new dict holding the SAME
\* value objects; pop("algo", None)
from_mapping(mapping) ==
    LET data == mapping
        algo == IF HasKey(data, "algo") THEN Get(data, "algo") ELSE None
    IN  AlgoOverride(algo, Without(data, "algo"))

\* AlgoOverride.to_dict without the `if self.algo is not None` test
AlgoOverride_to_dict_always_algo(h, self) ==
    Put(DeepCopyPairs(h, self.options), "algo", self.algo)

\* AlgoOverride.to_dict
AlgoOverride_to_dict(h, self) ==
    LET result == DeepCopyPairs(h, self.options)
    IN  IF self.algo # None THEN Put(result, "algo", self.algo) ELSE result

\* the loop of validate(): the first option key that is not supported
FirstUnsupported(options, supported) ==
    LET bad == {i \in 1..Len(options) : options[i][1] \notin SeqToSet(supported)}
    IN  IF bad = {} THEN 0 ELSE CHOOSE i \in bad : \A j \in bad : i <= j

\* validate() without the .lower() of the algo name
validate_case_sensitive(reg, self) ==
    IF self.algo = None THEN [err |-> NoErr, self |-> self]
    ELSE IF self.algo.s \notin DOMAIN reg
         THEN [err |-> UnknownAlgoErr(self.algo.s), self |-> self]
         ELSE LET i == FirstUnsupported(self.options, reg[self.algo.s].supported_args)
              IN  IF i # 0
                  THEN [err |-> UnsupportedOptionErr(self.algo.s, self.options[i][1]),
                        self |-> self]
                  ELSE [err |-> NoErr, self |-> self]

\* AlgoOverride.validate: the exception raised (NoErr when it returns) and
\* the object as the call leaves it
validate(reg, self) ==
    IF self.algo = None THEN [err |-> NoErr, self |-> self]
    ELSE LET algo_name == lower(self.algo.s)
         IN  IF algo_name \notin DOMAIN reg
             THEN [err |-> UnknownAlgoErr(self.algo.s), self |-> self]
             ELSE LET spec == reg[algo_name]
                      i == FirstUnsupported(self.options, spec.supported_args)
                  IN  IF i # 0
                      THEN [err |-> UnsupportedOptionErr(self.algo.s, self.options[i][1]),
                            self |-> self]
                      ELSE [err |-> NoErr, self |-> self]

\* describe_algo without the .lower() of the name
describe_algo_case_sensitive(reg, n) ==
    IF n \notin DOMAIN reg
    THEN [err |-> UnknownAlgoErr(n), spec |-> AlgoSpec(<<>>, <<>>), reg |-> reg]
    ELSE [err |-> NoErr, spec |-> reg[n], reg |-> reg]

\* describe_algo: the exception raised, the AlgoSpec returned and the
\* registry as the call leaves it
describe_algo(reg, n) ==
    LET algo_name == lower(n)
    IN  IF algo_name \notin DOMAIN reg
        THEN [err |-> UnknownAlgoErr(n), spec |-> AlgoSpec(<<>>, <<>>), reg |-> reg]
        ELSE [err |-> NoErr, spec |-> reg[algo_name], reg |-> reg]

---------------------------------------------------------------------------
(* PresetConfig *)

VALID_PRESET_KEYS ==
    <<"enable_conv", "target_module", "target_name", "module_algo_map",
      "name_algo_map", "lora_prefix", "use_fnmatch", "unet_target_module",
      "unet_target_name", "text_encoder_target_module",
      "text_encoder_target_name", "exclude_name">>

\* the dataclass defaults
PresetDefaults ==
    [enable_conv |-> None, target_module |-> None, target_name |-> None,
     module_algo_map |-> <<>>, name_algo_map |-> <<>>, lora_prefix |-> None,
     use_fnmatch |-> None, unet_target_module |-> None, unet_target_name |-> None,
     text_encoder_target_module |-> None, text_encoder_target_name |-> None,
     exclude_name |-> None, extra |-> <<>>]

\* PresetConfig(**kwargs)
PresetConfig(kwargs) ==
    [f \in DOMAIN PresetDefaults |->
        IF f \in DOMAIN kwargs THEN kwargs[f] ELSE PresetDefaults[f]]

\* what a reader of a PresetConfig object sees in its fields
OverrideContents(h, o) == [algo |-> o.algo, options |-> Canon(h, Dict(o.options))]
PresetContents(h, p) ==
    [f \in DOMAIN p |->
        IF f \in {"module_algo_map", "name_algo_map"}
        THEN [k \in Keys(p[f]) |-> OverrideContents(h, Get(p[f], k))]
        ELSE IF f = "extra" THEN Canon(h, Dict(p[f]))
        ELSE Canon(h, p[f])]

\* `value or {}`
OrEmptyDict(h, value) == IF Truthy(h, value) THEN value ELSE Dict(<<>>)

\* the inner loop of from_dict over raw_map.items(): the overrides built so
\* far and the first exception raised
RECURSIVE ConvertEntries(_, _, _, _)
ConvertEntries(h, reg, entries, strict) ==
    IF entries = <<>> THEN [err |-> NoErr, overrides |-> <<>>]
    ELSE LET override_key == entries[1][1]
             mapping == OrEmptyDict(h, entries[1][2])
         IN  IF mapping.t # "dict"
             THEN [err |-> TypeError, overrides |-> <<>>]
             ELSE LET override == from_mapping(mapping.pairs)
                      v == IF strict THEN validate(reg, override).err ELSE NoErr
                  IN  IF v # NoErr THEN [err |-> v, overrides |-> <<>>]
                      ELSE LET rest == ConvertEntries(h, reg, Tail(entries), strict)
                           IN  [err |-> rest.err,
                                overrides |-> <<(<<override_key, override>>)>> \o rest.overrides]

\* the algorithm-map branch of from_dict without the `if strict` validation
ConvertMap_unvalidated(h, reg, value, strict) ==
    LET raw_map == OrEmptyDict(h, value)
    IN  IF raw_map.t # "dict"
        THEN [err |-> AttributeError, overrides |-> <<>>]
        ELSE ConvertEntries(h, reg, raw_map.pairs, FALSE)

\* one algorithm-map key of from_dict
ConvertMap(h, reg, value, strict) ==
    LET raw_map == OrEmptyDict(h, value)
    IN  IF raw_map.t # "dict"
        THEN [err |-> AttributeError, overrides |-> <<>>]
        ELSE ConvertEntries(h, reg, raw_map.pairs, strict)

\* the loop of from_dict over VALID_PRESET_KEYS, from position i on
RECURSIVE FromDictLoop(_, _, _, _, _, _)
FromDictLoop(h, reg, data, strict, i, kwargs) ==
    IF i > Len(VALID_PRESET_KEYS) THEN [err |-> NoErr, kwargs |-> kwargs]
    ELSE LET key == VALID_PRESET_KEYS[i]
         IN  IF key \notin DOMAIN data
             THEN FromDictLoop(h, reg, data, strict, i + 1, kwargs)
             ELSE IF key \in {"module_algo_map", "name_algo_map"}
             THEN LET c == ConvertMap(h, reg, data[key], strict)
                  IN  IF c.err # NoErr THEN [err |-> c.err, kwargs |-> kwargs]
                      ELSE FromDictLoop(h, reg, data, strict, i + 1,
                                        (key :> c.overrides) @@ kwargs)
             ELSE FromDictLoop(h, reg, data, strict, i + 1,
                               (key :> _copy_value(h, data[key])) @@ kwargs)

\* from_dict reporting only one of the unknown keys
from_dict_first_unknown(h, reg, data, strict) ==
    LET unknown_keys == {key \in DOMAIN data : key \notin SeqToSet(VALID_PRESET_KEYS)}
    IN  IF unknown_keys # {}
        THEN [err |-> UnknownKeysErr({CHOOSE key \in unknown_keys : TRUE}),
              preset |-> PresetConfig(<<>>)]
        ELSE LET r == FromDictLoop(h, reg, data, strict, 1, <<>>)
             IN  IF r.err # NoErr
                 THEN [err |-> r.err, preset |-> PresetConfig(<<>>)]
                 ELSE [err |-> NoErr, preset |-> PresetConfig(r.kwargs)]

\* PresetConfig.from_dict: the exception raised (NoErr when it returns) and
\* the PresetConfig returned
from_dict(h, reg, data, strict) ==
    LET unknown_keys == {key \in DOMAIN data : key \notin SeqToSet(VALID_PRESET_KEYS)}
    IN  IF unknown_keys # {}
        THEN [err |-> UnknownKeysErr(unknown_keys), preset |-> PresetConfig(<<>>)]
        ELSE LET r == FromDictLoop(h, reg, data, strict, 1, <<>>)
             IN  IF r.err # NoErr
                 THEN [err |-> r.err, preset |-> PresetConfig(<<>>)]
                 ELSE [err |-> NoErr, preset |-> PresetConfig(r.kwargs)]

\* {key: override.to_dict() for key, override in map.items()}
RECURSIVE OverridesToDict(_, _)
OverridesToDict(h, overrides) ==
    IF overrides = <<>> THEN <<>>
    ELSE <<(<<overrides[1][1], Dict(AlgoOverride_to_dict(h, overrides[1][2]))>>)>>
         \o OverridesToDict(h, Tail(overrides))

\* maybe_set inside to_dict
maybe_set(h, data, key, value) ==
    IF value = None THEN data ELSE (key :> _copy_value(h, value)) @@ data

\* the algorithm-map branches of to_dict
set_map(h, data, key, overrides) ==
    IF overrides # <<>> THEN (key :> Dict(OverridesToDict(h, overrides))) @@ data
    ELSE data

\* data.update(extra)
RECURSIVE update(_, _)
update(data, ps) ==
    IF ps = <<>> THEN data
    ELSE update((ps[1][1] :> ps[1][2]) @@ data, Tail(ps))

\* PresetConfig.to_dict
to_dict(h, self) ==
    LET d1 == maybe_set(h, <<>>, "enable_conv", self.enable_conv)
        d2 == maybe_set(h, d1, "target_module", self.target_module)
        d3 == maybe_set(h, d2, "target_name", self.target_name)
        d4 == set_map(h, d3, "module_algo_map", self.module_algo_map)
        d5 == set_map(h, d4, "name_algo_map", self.name_algo_map)
        d6 == maybe_set(h, d5, "lora_prefix", self.lora_prefix)
        d7 == maybe_set(h, d6, "use_fnmatch", self.use_fnmatch)
        d8 == maybe_set(h, d7, "unet_target_module", self.unet_target_module)
        d9 == maybe_set(h, d8, "unet_target_name", self.unet_target_name)
        d10 == maybe_set(h, d9, "text_encoder_target_module",
                         self.text_encoder_target_module)
        d11 == maybe_set(h, d10, "text_encoder_target_name",
                         self.text_encoder_target_name)
        d12 == maybe_set(h, d11, "exclude_name", self.exclude_name)
    IN  update(d12, DeepCopyPairs(h, self.extra))

\* one loop of list_algorithms: `if override.algo: yield override.algo`
RECURSIVE YieldAlgos(_, _)
YieldAlgos(h, overrides) ==
    IF overrides = <<>> THEN <<>>
    ELSE (IF Truthy(h, overrides[1][2].algo) THEN <<overrides[1][2].algo>> ELSE <<>>)
         \o YieldAlgos(h, Tail(overrides))

\* PresetConfig.list_algorithms, run to exhaustion
list_algorithms(h, self) ==
    YieldAlgos(h, self.module_algo_map) \o YieldAlgos(h, self.name_algo_map)

\* read_preset: src is what toml.load does with the path (it raises, or it
\* returns the parsed mapping).  The result is the value returned, or the
\* exception that leaves read_preset.
read_preset(h, reg, src) ==
    IF src.load # "ok" THEN [err |-> NoErr, value |-> None]
    ELSE LET r == from_dict(h, reg, src.data, FALSE)
         IN  IF r.err.exc = "PresetValidationError" THEN [err |-> NoErr, value |-> None]
             ELSE IF r.err # NoErr THEN [err |-> r.err, value |-> None]
             ELSE [err |-> NoErr, value |-> [t |-> "mapping", map |-> to_dict(h, r.preset)]]

---------------------------------------------------------------------------
(* config.py: the built-in presets *)

FULL_UNET_MODULES ==
    <<"Transformer2DModel", "ResnetBlock2D", "Downsample2D", "Upsample2D",
      "HunYuanDiTBlock", "DoubleStreamBlock", "SingleStreamBlock", "SingleDiTBlock",
      "MMDoubleStreamBlock", "MMSingleStreamBlock", "WanAttentionBlock",
      "HunyuanVideoTransformerBlock", "HunyuanVideoSingleTransformerBlock",
      "JointTransformerBlock", "FinalLayer", "QwenImageTransformerBlock">>
FULL_UNET_NAMES ==
    <<"conv_in", "conv_out", "time_embedding.linear_1", "time_embedding.linear_2">>
FULL_TEXT_ENCODER_MODULES ==
    <<"CLIPAttention", "CLIPSdpaAttention", "CLIPMLP", "MT5Block", "BertLayer",
      "Gemma2Attention", "Gemma2FlashAttention2", "Gemma2SdpaAttention", "Gemma2MLP">>

\* the heap locations of the three module-level lists: a preset built with
\* one of them holds that very list, not a copy
LocUnetModules == Ref(1)
LocUnetNames == Ref(2)
LocTextEncoderModules == Ref(3)

TransformerBlocks ==
    <<"Transformer2DModel", "HunYuanDiTBlock", "DoubleStreamBlock", "SingleStreamBlock",
      "SingleDiTBlock", "MMDoubleStreamBlock", "MMSingleStreamBlock", "WanAttentionBlock",
      "HunyuanVideoTransformerBlock", "HunyuanVideoSingleTransformerBlock",
      "JointTransformerBlock", "FinalLayer", "QwenImageTransformerBlock">>

\* PresetConfig(enable_conv=.., unet_target_module=.., unet_target_name=..,
\*              text_encoder_target_module=.., text_encoder_target_name=..,
\*              name_algo_map=..)
BuiltinPreset(conv, um, un, tm, tn, nmap) ==
    PresetConfig([enable_conv |-> Bool(conv), unet_target_module |-> um,
                  unet_target_name |-> un, text_encoder_target_module |-> tm,
                  text_encoder_target_name |-> tn, name_algo_map |-> nmap])

\* the eight PresetConfig objects, each named after its catalog key
BUILTIN_OBJECTS ==
    [full |->
        BuiltinPreset(TRUE, LocUnetModules, LocUnetNames, LocTextEncoderModules,
                      List(<<>>), <<>>),
     full_lin |->
        BuiltinPreset(FALSE,
                      List(<<"Transformer2DModel", "ResnetBlock2D", "HunYuanDiTBlock",
                             "DoubleStreamBlock", "SingleStreamBlock", "SingleDiTBlock",
                             "MMDoubleStreamBlock", "MMSingleStreamBlock",
                             "WanAttentionBlock", "HunyuanVideoTransformerBlock",
                             "HunyuanVideoSingleTransformerBlock", "JointTransformerBlock",
                             "FinalLayer", "QwenImageTransformerBlock">>),
                      List(<<"time_embedding.linear_1", "time_embedding.linear_2">>),
                      LocTextEncoderModules, List(<<>>), <<>>),
     attn_mlp |->
        BuiltinPreset(FALSE, List(TransformerBlocks), List(<<>>), LocTextEncoderModules,
                      List(<<>>), <<>>),
     attn_only |->
        BuiltinPreset(FALSE, List(<<"CrossAttention", "SelfAttention">>), List(<<>>),
                      List(<<"CLIPAttention", "CLIPSdpaAttention", "BertAttention",
                             "MT5LayerSelfAttention", "Gemma2Attention",
                             "Gemma2FlashAttention2", "Gemma2SdpaAttention">>),
                      List(<<>>), <<>>),
     unet_only |->
        BuiltinPreset(TRUE, LocUnetModules, LocUnetNames, List(<<>>), List(<<>>), <<>>),
     unet_transformer_only |->
        BuiltinPreset(FALSE, List(TransformerBlocks), List(<<>>), List(<<>>), List(<<>>),
                      <<>>),
     unet_convblock_only |->
        BuiltinPreset(TRUE, List(<<"ResnetBlock2D", "Downsample2D", "Upsample2D">>),
                      List(<<"conv_in", "conv_out">>), List(<<>>), List(<<>>), <<>>),
     ia3 |->
        BuiltinPreset(FALSE, List(<<>>), List(<<"to_k", "to_v", "ff.net.2">>), List(<<>>),
                      List(<<"k_proj", "v_proj", "mlp.fc2">>),
                      <<(<<"mlp.fc2",
                           AlgoOverride(None, <<(<<"train_on_input", Bool(TRUE)>>)>>)>>),
                        <<"ff.net.2",
                          AlgoOverride(None, <<(<<"train_on_input", Bool(TRUE)>>)>>)>>>>)]

\* the catalog dict: preset name -> PresetConfig object
BUILTIN_PRESET_CONFIGS ==
    ("full" :> "full") @@ ("full-lin" :> "full_lin") @@ ("attn-mlp" :> "attn_mlp")
    @@ ("attn-only" :> "attn_only") @@ ("unet-only" :> "unet_only")
    @@ ("unet-transformer-only" :> "unet_transformer_only")
    @@ ("unet-convblock-only" :> "unet_convblock_only") @@ ("ia3" :> "ia3")

\* list_builtin_presets: BUILTIN_PRESET_CONFIGS.copy() is a new dict that
\* holds the same PresetConfig objects
list_builtin_presets == BUILTIN_PRESET_CONFIGS

Callers == {"A", "B"}
NoView == <<>>

---------------------------------------------------------------------------
(* Bounds and input universes *)

\* option entries in one override built by a caller
MaxOpts == 2
\* describe_algo calls recorded in one behaviour
MaxQueries == 2
\* mutations callers make in one behaviour
MaxMut == 2

s_LoRA == <<"L", "o", "R", "A">>
s_LOKR == <<"L", "O", "K", "R">>
s_IA3 == <<"I", "A", "3">>
s_Diag_OFT == <<"D", "i", "a", "g", "-", "O", "F", "T">>
s_nope == <<"n", "o", "p", "e">>
s_lor == <<"l", "o", "r">>

AlgoNames == {s_lora, s_LoRA, s_lokr, s_LOKR, s_ia3, s_IA3, s_diag_oft, s_Diag_OFT,
              s_nope, s_lor, <<>>}

OptionKeys == {"dim", "factor", "alpha", "train_on_input", "rank"}
OptionValues(k) ==
    CASE k = "dim" -> {IntV(4), IntV(10000)}
      [] k = "factor" -> {IntV(8)}
      [] k = "alpha" -> {IntV(1)}
      [] k = "train_on_input" -> {Bool(TRUE)}
      [] OTHER -> {IntV(0)}

\* ordered option dicts with at most n entries and distinct keys
RECURSIVE OptionDicts(_)
OptionDicts(n) ==
    IF n = 0 THEN {<<>>}
    ELSE LET shorter == OptionDicts(n - 1)
         IN  shorter \cup
             UNION {{Append(d, <<k, v>>) :
                        d \in {x \in shorter : Len(x) = n - 1}, v \in OptionValues(k)} :
                    k \in OptionKeys}
DistinctKeys(ps) == Cardinality(Keys(ps)) = Len(ps)
OptionInputs == {d \in OptionDicts(MaxOpts) : DistinctKeys(d)}
OverrideInputs ==
    {AlgoOverride(a, d) : a \in {None} \cup {Str(n) : n \in AlgoNames}, d \in OptionInputs}

NotCalled == [called |-> FALSE]

---------------------------------------------------------------------------
(* Callers of AlgoOverride.validate *)

NoCall == [op |-> "none"]
NoSource == [load |-> "none"]

\* list objects that exist before any call: the three module-level lists
\* of config.py (locations 1 to 3) and three lists a caller owns: an empty
\* target list, a target list and a list used as an option value
InitHeap ==
    <<FULL_UNET_MODULES, FULL_UNET_NAMES, FULL_TEXT_ENCODER_MODULES,
      <<>>, <<"Attention", "Linear">>, <<"to_k">>>>

\* the state once the package is imported
Imported ==
    /\ heap = InitHeap
    /\ registry = ALGO_REGISTRY
    /\ objects = BUILTIN_OBJECTS
    /\ views = [c \in Callers |-> NoView]
    /\ seen = [c \in Callers |-> NoView]
    /\ PRESET = [n \in DOMAIN BUILTIN_PRESET_CONFIGS |->
                    to_dict(InitHeap, BUILTIN_OBJECTS[BUILTIN_PRESET_CONFIGS[n]])]
    /\ nmut = 0
AlgoIdle == ov = AlgoOverride(None, <<>>) /\ vres = NotCalled /\ dres = <<>>
ParseIdle == raw = <<>> /\ res = NotCalled /\ last = NoCall
FileIdle == file = NoSource /\ rp = NotCalled

InitIdle == Imported /\ AlgoIdle /\ ParseIdle /\ FileIdle

\* the caller builds an override: AlgoOverride(algo=..., options={...})
Construct ==
    /\ ov = AlgoOverride(None, <<>>)
    /\ vres = NotCalled
    /\ \E o \in OverrideInputs : ov' = o
    /\ UNCHANGED <<heap, vres, dres, registry, parseVars, fileVars, catalogVars>>

\* override.validate()
Validate ==
    /\ LET r == validate(registry, ov)
       IN  /\ vres' = [called |-> TRUE, input |-> ov, err |-> r.err]
           /\ ov' = r.self
    /\ UNCHANGED <<heap, dres, registry, parseVars, fileVars, catalogVars>>

NextValidate == Construct \/ Validate
SpecValidate == InitIdle /\ [][NextValidate]_vars

---------------------------------------------------------------------------
(* Callers of describe_algo *)

DescribeAlgo ==
    /\ Len(dres) < MaxQueries
    /\ \E n \in AlgoNames :
          LET r == describe_algo(registry, n)
          IN  /\ dres' = Append(dres, [input |-> n, err |-> r.err, spec |-> r.spec])
              /\ registry' = r.reg
    /\ UNCHANGED <<heap, ov, vres, parseVars, fileVars, catalogVars>>

NextDescribe == DescribeAlgo
SpecDescribe == InitIdle /\ [][NextDescribe]_vars

---------------------------------------------------------------------------
(* Callers of PresetConfig.from_dict / to_dict / list_algorithms *)

\* raw override mappings a caller may write under an algorithm-map key
O_lora == Dict(<<(<<"dim", IntV(4)>>), <<"algo", Str(s_LoRA)>>>>)
O_ia3 == Dict(<<(<<"algo", Str(s_ia3)>>), <<"dim", IntV(4)>>>>)
O_nope == Dict(<<(<<"algo", Str(s_nope)>>)>>)
O_list == Dict(<<(<<"train_on_input", Ref(6)>>)>>)
O_flag == Dict(<<(<<"train_on_input", Bool(TRUE)>>)>>)
O_algoNone == Dict(<<(<<"algo", None>>), <<"dim", IntV(4)>>>>)
O_algoEmpty == Dict(<<(<<"algo", Str(<<>>)>>)>>)
O_optNone == Dict(<<(<<"alpha", None>>)>>)

ModulePool ==
    {None, Dict(<<>>), O_lora, O_ia3, O_nope, O_list, O_algoNone, O_algoEmpty, O_optNone}
NamePool == {O_lora, O_nope, O_flag}
ModuleKeys == {"Linear", "Conv2d"}
NameKeys == {"ff.net.2"}

\* ordered dicts over the given keys, values from pool
RECURSIVE MapsOver(_, _)
MapsOver(keys, pool) ==
    {<<>>} \cup
    UNION {{<<(<<k, v>>)>> \o m : v \in pool, m \in MapsOver(keys \ {k}, pool)} : k \in keys}

Absent == <<>>
FieldChoices(key, values) == {Absent} \cup {key :> v : v \in values}

\* raw mappings that vary the algorithm maps, with or without unknown keys
MapInputs ==
    {a @@ b @@ c @@ d @@ e @@ f :
        a \in FieldChoices("enable_conv", {None, Bool(FALSE)}),
        b \in FieldChoices("target_module", {Ref(4), Ref(5)}),
        c \in FieldChoices("module_algo_map",
                           {None} \cup {Dict(m) : m \in MapsOver(ModuleKeys, ModulePool)}),
        d \in FieldChoices("name_algo_map", {Dict(m) : m \in MapsOver(NameKeys, NamePool)}),
        e \in FieldChoices("foo", {IntV(1)}),
        f \in FieldChoices("bar", {IntV(2)})}

\* raw mappings that vary the presence of every other recognized key
s_lycoris == <<"l", "y", "c", "o", "r", "i", "s">>
FieldInputs ==
    {a @@ b @@ c @@ d @@ e @@ f @@ g @@ i :
        a \in FieldChoices("target_name", {Ref(5)}),
        b \in FieldChoices("lora_prefix", {Str(s_lycoris)}),
        c \in FieldChoices("use_fnmatch", {Bool(TRUE)}),
        d \in FieldChoices("unet_target_module", {Ref(5)}),
        e \in FieldChoices("unet_target_name", {Ref(4)}),
        f \in FieldChoices("text_encoder_target_module", {Ref(5)}),
        g \in FieldChoices("text_encoder_target_name", {Ref(4)}),
        i \in FieldChoices("exclude_name", {Ref(5)})}

\* the raw mappings callers pass to from_dict.  They meet its annotations:
\* an algorithm map is a mapping (or None) from names to override mappings
\* (or None).  Mappings that do not are among the files of read_preset.
RawInputs == MapInputs \cup FieldInputs

InitParse ==
    /\ Imported /\ AlgoIdle /\ FileIdle
    /\ raw \in RawInputs
    /\ res = NotCalled
    /\ last = NoCall

\* preset = PresetConfig.from_dict(raw, strict=s)
FromDict ==
    /\ res = NotCalled
    /\ \E s \in BOOLEAN :
          LET r == from_dict(heap, registry, raw, s)
          IN  res' = [called |-> TRUE, input |-> raw, strict |-> s, err |-> r.err,
                      preset |-> r.preset,
                      contents |-> PresetContents(heap, r.preset),
                      export |-> CanonMapping(heap, to_dict(heap, r.preset))]
    /\ UNCHANGED <<heap, registry, raw, last, algoVars, fileVars, catalogVars>>

\* preset.to_dict()
ToDict ==
    /\ res.called /\ res.err = NoErr
    /\ last' = [op |-> "to_dict", data |-> to_dict(heap, res.preset)]
    /\ UNCHANGED <<heap, registry, raw, res, algoVars, fileVars, catalogVars>>

\* list(preset.list_algorithms())
ListAlgorithms ==
    /\ res.called /\ res.err = NoErr
    /\ last' = [op |-> "list_algorithms", algos |-> list_algorithms(heap, res.preset)]
    /\ UNCHANGED <<heap, registry, raw, res, algoVars, fileVars, catalogVars>>

Next == FromDict \/ ToDict \/ ListAlgorithms
Spec == InitParse /\ [][Next]_vars

---------------------------------------------------------------------------
(* Callers of read_preset *)

\* parsed files whose algorithm maps are not mappings of mappings, e.g.
\*   module_algo_map = 5          and      [module_algo_map]
\*                                          Linear = 5
IllTyped ==
    {a @@ c @@ e :
        a \in FieldChoices("enable_conv", {Bool(FALSE)}),
        c \in {"module_algo_map" :> IntV(5), "name_algo_map" :> IntV(0),
               "module_algo_map" :> Dict(<<(<<"Linear", IntV(5)>>)>>),
               "name_algo_map" :> Dict(<<(<<"ff.net.2", O_flag>>), <<"mlp.fc2", IntV(0)>>>>)},
        e \in FieldChoices("foo", {IntV(1)})}

\* TOML has no null: a parsed file holds no None
RECURSIVE NoNone(_)
NoNone(v) ==
    CASE v.t = "none" -> FALSE
      [] v.t = "dict" -> \A i \in 1..Len(v.pairs) : NoNone(v.pairs[i][2])
      [] OTHER -> TRUE
TomlMapping(m) == \A k \in DOMAIN m : NoNone(m[k])

FileSources ==
    {[load |-> "unreadable"], [load |-> "malformed"]}
    \cup {[load |-> "ok", data |-> m] : m \in {x \in RawInputs : TomlMapping(x)} \cup IllTyped}

InitFile ==
    /\ Imported /\ AlgoIdle /\ ParseIdle
    /\ file \in FileSources
    /\ rp = NotCalled

\* read_preset(preset_path)
ReadPreset ==
    /\ rp = NotCalled
    /\ LET r == read_preset(heap, registry, file)
       IN  rp' = [called |-> TRUE, err |-> r.err, value |-> r.value]
    /\ UNCHANGED <<heap, registry, file, algoVars, parseVars, catalogVars>>

NextFile == ReadPreset
SpecFile == InitFile /\ [][NextFile]_vars

---------------------------------------------------------------------------
(* Callers of list_builtin_presets that change what they received *)

\* the presets callers reach into, and the list fields they append to
MutTargets == {"full", "ia3"}
MutListFields == {"unet_target_module", "text_encoder_target_name"}

\* presets = list_builtin_presets(); the caller reads every preset
ListBuiltinPresets ==
    \E c \in Callers :
        /\ views' = [views EXCEPT ![c] = list_builtin_presets]
        /\ seen' = [seen EXCEPT ![c] =
                       [n \in DOMAIN list_builtin_presets |->
                           PresetContents(heap, objects[list_builtin_presets[n]])]]
        /\ UNCHANGED <<heap, registry, objects, PRESET, nmut, algoVars, parseVars, fileVars>>

\* presets["mine"] = presets[n]
CallerDictPut ==
    \E c \in Callers : \E n \in DOMAIN views[c] \cap MutTargets :
        /\ nmut < MaxMut
        /\ views' = [views EXCEPT ![c] = ("mine" :> views[c][n]) @@ views[c]]
        /\ nmut' = nmut + 1
        /\ UNCHANGED <<heap, registry, objects, seen, PRESET, algoVars, parseVars, fileVars>>

\* del presets[n]
CallerDictDel ==
    \E c \in Callers : \E n \in DOMAIN views[c] \cap MutTargets :
        /\ nmut < MaxMut
        /\ views' = [views EXCEPT ![c] = [k \in DOMAIN views[c] \ {n} |-> views[c][k]]]
        /\ nmut' = nmut + 1
        /\ UNCHANGED <<heap, registry, objects, seen, PRESET, algoVars, parseVars, fileVars>>

\* presets[n].enable_conv = not presets[n].enable_conv
CallerSetField ==
    \E c \in Callers : \E n \in DOMAIN views[c] \cap MutTargets :
        /\ nmut < MaxMut
        /\ objects' = [objects EXCEPT ![views[c][n]].enable_conv = Bool(~@.b)]
        /\ nmut' = nmut + 1
        /\ UNCHANGED <<heap, registry, views, seen, PRESET, algoVars, parseVars, fileVars>>

\* presets[n].<field>.append("Custom")
CallerListAppend ==
    \E c \in Callers : \E n \in DOMAIN views[c] \cap MutTargets : \E f \in MutListFields :
        LET v == objects[views[c][n]][f]
        IN  /\ nmut < MaxMut
            /\ IF v.t = "ref"
               THEN /\ heap' = [heap EXCEPT ![v.loc] = Append(@, "Custom")]
                    /\ UNCHANGED objects
               ELSE /\ objects' = [objects EXCEPT ![views[c][n]][f] =
                                      List(Append(v.items, "Custom"))]
                    /\ UNCHANGED heap
            /\ nmut' = nmut + 1
            /\ UNCHANGED <<registry, views, seen, PRESET, algoVars, parseVars, fileVars>>

\* presets[n].name_algo_map["ff.net.2"] = AlgoOverride(algo="lora")
CallerOverridePut ==
    \E c \in Callers : \E n \in DOMAIN views[c] \cap MutTargets :
        /\ nmut < MaxMut
        /\ objects' = [objects EXCEPT ![views[c][n]].name_algo_map =
                          Put(@, "ff.net.2", AlgoOverride(Str(s_lora), <<>>))]
        /\ nmut' = nmut + 1
        /\ UNCHANGED <<heap, registry, views, seen, PRESET, algoVars, parseVars, fileVars>>

NextCatalog ==
    \/ ListBuiltinPresets
    \/ CallerDictPut
    \/ CallerDictDel
    \/ CallerSetField
    \/ CallerListAppend
    \/ CallerOverridePut
SpecCatalog == InitIdle /\ [][NextCatalog]_vars

---------------------------------------------------------------------------
(* Callers of from_dict that go on changing the raw mapping they passed *)

AliasInputs ==
    {m \in RawInputs : DOMAIN m = {"target_module", "module_algo_map"} /\ TomlMapping(m)}

InitAlias ==
    /\ Imported /\ AlgoIdle /\ FileIdle
    /\ raw \in AliasInputs
    /\ res = NotCalled
    /\ last = NoCall

Parsed == res.called /\ res.err = NoErr

\* a list reachable from raw: lst.append("x")
RawListAppend ==
    \E l \in {4, 5, 6} :
        /\ Parsed /\ nmut < MaxMut
        /\ heap' = [heap EXCEPT ![l] = Append(@, "x")]
        /\ nmut' = nmut + 1
        /\ UNCHANGED <<registry, raw, res, last, objects, views, seen, PRESET, algoVars,
                       fileVars>>

\* raw["enable_conv"] = True
RawSetKey ==
    /\ Parsed /\ nmut < MaxMut
    /\ raw' = ("enable_conv" :> Bool(TRUE)) @@ raw
    /\ nmut' = nmut + 1
    /\ UNCHANGED <<heap, registry, res, last, objects, views, seen, PRESET, algoVars,
                   fileVars>>

\* del raw[k]
RawDelKey ==
    \E k \in DOMAIN raw :
        /\ Parsed /\ nmut < MaxMut
        /\ raw' = [x \in DOMAIN raw \ {k} |-> raw[x]]
        /\ nmut' = nmut + 1
        /\ UNCHANGED <<heap, registry, res, last, objects, views, seen, PRESET, algoVars,
                       fileVars>>

\* raw["module_algo_map"][k]["dim"] = 8   (an override's own raw mapping)
RawOverrideSet ==
    /\ Parsed /\ nmut < MaxMut
    /\ "module_algo_map" \in DOMAIN raw
    /\ \E i \in 1..Len(raw.module_algo_map.pairs) :
          LET e == raw.module_algo_map.pairs[i]
          IN  /\ e[2].t = "dict"
              /\ raw' = [raw EXCEPT !.module_algo_map.pairs[i] =
                            <<e[1], Dict(Put(e[2].pairs, "dim", IntV(8)))>>]
    /\ nmut' = nmut + 1
    /\ UNCHANGED <<heap, registry, res, last, objects, views, seen, PRESET, algoVars,
                   fileVars>>

\* del raw["module_algo_map"][k]
RawMapDel ==
    /\ Parsed /\ nmut < MaxMut
    /\ "module_algo_map" \in DOMAIN raw
    /\ \E i \in 1..Len(raw.module_algo_map.pairs) :
          raw' = [raw EXCEPT !.module_algo_map.pairs =
                     Without(@, raw.module_algo_map.pairs[i][1])]
    /\ nmut' = nmut + 1
    /\ UNCHANGED <<heap, registry, res, last, objects, views, seen, PRESET, algoVars,
                   fileVars>>

NextAlias ==
    \/ FromDict
    \/ RawListAppend
    \/ RawSetKey
    \/ RawDelKey
    \/ RawOverrideSet
    \/ RawMapDel
SpecAlias == InitAlias /\ [][NextAlias]_vars

---------------------------------------------------------------------------
(* Properties *)

ValidKeys == SeqToSet(VALID_PRESET_KEYS)

\* two strings that differ at most in the case of their letters
CasePairs ==
    {<<"A", "a">>, <<"B", "b">>, <<"C", "c">>, <<"D", "d">>, <<"E", "e">>, <<"F", "f">>,
     <<"G", "g">>, <<"H", "h">>, <<"I", "i">>, <<"J", "j">>, <<"K", "k">>, <<"L", "l">>,
     <<"M", "m">>, <<"N", "n">>, <<"O", "o">>, <<"P", "p">>, <<"Q", "q">>, <<"R", "r">>,
     <<"S", "s">>, <<"T", "t">>, <<"U", "u">>, <<"V", "v">>, <<"W", "w">>, <<"X", "x">>,
     <<"Y", "y">>, <<"Z", "z">>}
EqNoCase(a, b) ==
    /\ Len(a) = Len(b)
    /\ \A i \in 1..Len(a) :
          a[i] = b[i] \/ <<a[i], b[i]>> \in CasePairs \/ <<b[i], a[i]>> \in CasePairs
RegistryMatches(n) == {k \in DOMAIN ALGO_REGISTRY : EqNoCase(n, k)}

---------------------------------------------------------------------------
\* C1 as stated: for a raw mapping of recognized keys that holds no None,
\* every key of the mapping is in to_dict(from_dict(m)) with an equal value
\* (empty algorithm maps included) and the output has no other key.
C1_Original ==
    (last.op = "to_dict" /\ TomlMapping(res.input)) =>
        LET m == res.input
            out == last.data
        IN  /\ \A k \in DOMAIN m :
                  k \in DOMAIN out /\ Canon(heap, out[k]) = Canon(heap, m[k])
            /\ DOMAIN out \subseteq DOMAIN m

\* the raw override as the export gives it back: a None override is an
\* empty mapping, and an algo entry holding None is dropped
NormalOverride(h, v) ==
    LET ps == IF Truthy(h, v) THEN v.pairs ELSE <<>>
    IN  Dict(IF HasKey(ps, "algo") /\ Get(ps, "algo") = None THEN Without(ps, "algo") ELSE ps)
NormalMap(h, v) ==
    Dict([i \in 1..Len(v.pairs) |-> <<v.pairs[i][1], NormalOverride(h, v.pairs[i][2])>>])
\* the raw mapping as the export gives it back: None entries and empty
\* algorithm maps are left out, everything else is kept
Normal(h, m) ==
    LET kept == {k \in DOMAIN m :
                    /\ m[k] # None
                    /\ k \in {"module_algo_map", "name_algo_map"} => Truthy(h, m[k])}
    IN  [k \in kept |->
            IF k \in {"module_algo_map", "name_algo_map"} THEN NormalMap(h, m[k]) ELSE m[k]]

\* C1 (amended): for a raw mapping m of recognized keys (its algorithm
\* maps mappings of override mappings or None),
\* to_dict(from_dict(m)) holds every key of m whose value is
\* not None with an equal value, empty lists and false booleans included,
\* except that an empty algorithm map is left out; inside an algorithm map
\* a None override comes back as an empty mapping and an algo entry holding
\* None is dropped; a key absent from m is absent from the output.
C1_RoundTrip ==
    last.op = "to_dict" =>
        CanonMapping(heap, last.data) = CanonMapping(heap, Normal(heap, res.input))

\* C1 witness: a mapping with an empty list, a false boolean and a
\* non-empty algorithm map has been parsed and exported.
C1_Witness ==
    /\ last.op = "to_dict"
    /\ DOMAIN res.input = {"enable_conv", "target_module", "module_algo_map"}
    /\ res.input.enable_conv = Bool(FALSE)
    /\ res.input.target_module = Ref(4)
    /\ res.input.module_algo_map = Dict(<<(<<"Linear", O_lora>>), <<"Conv2d", O_list>>>>)
    /\ DOMAIN last.data = DOMAIN res.input

\* C2: a raw mapping with a key outside VALID_PRESET_KEYS makes from_dict,
\* strict or not, raise PresetValidationError naming every such key; no
\* preset is returned and no override error is raised in its place.
C2_UnknownKeysAllReported ==
    (res.called /\ DOMAIN res.input \ ValidKeys # {}) =>
        /\ res.err.exc = "PresetValidationError"
        /\ res.err.kind = "UnknownPresetKeys"
        /\ res.err.keys = DOMAIN res.input \ ValidKeys
        /\ res.preset = PresetConfig(<<>>)

\* C2 witness: a strict parse of a mapping with two unknown keys and an
\* override that would fail validation.
C2_Witness ==
    /\ res.called /\ res.strict
    /\ {"foo", "bar"} \subseteq DOMAIN res.input
    /\ "module_algo_map" \in DOMAIN res.input
    /\ res.input.module_algo_map = Dict(<<(<<"Linear", O_nope>>)>>)
    /\ res.err.keys = {"foo", "bar"}

\* the overrides named in the claim
Ia3Dim4 == AlgoOverride(Str(s_ia3), <<(<<"dim", IntV(4)>>)>>)
LokrFactorDim == AlgoOverride(Str(s_lokr), <<(<<"factor", IntV(8)>>), <<"dim", IntV(10000)>>>>)

C6_DescribeAlgo ==
    /\ registry = ALGO_REGISTRY
    /\ \A i \in 1..Len(dres) :
          LET hits == RegistryMatches(dres[i].input)
          IN  IF hits = {}
              THEN dres[i].err = UnknownAlgoErr(dres[i].input)
              ELSE /\ dres[i].err = NoErr
                   /\ \E k \in hits : dres[i].spec = ALGO_REGISTRY[k]
    /\ \A i, j \in 1..Len(dres) :
          EqNoCase(dres[i].input, dres[j].input) =>
              dres[i].spec = dres[j].spec /\ dres[i].err = dres[j].err

\* C6 witness: "LoRA" and "lora" have both been looked up and an unknown
\* name would be the next.
C6_Witness ==
    /\ Len(dres) = 2
    /\ dres[1].input = s_LoRA /\ dres[2].input = s_lora
    /\ dres[1].err = NoErr /\ dres[1].spec.name = s_lora

\* C7 as stated: read_preset never lets an exception out; it returns None
\* when the file cannot be loaded or its mapping is not a valid preset, and
\* otherwise the non-strict to_dict(from_dict(raw)), all of whose keys are
\* recognized.
C7_Original ==
    rp.called =>
        /\ rp.err = NoErr
        /\ IF file.load # "ok" THEN rp.value = None
           ELSE LET r == from_dict(heap, registry, file.data, FALSE)
                IN  IF r.err # NoErr THEN rp.value = None
                    ELSE /\ rp.value = [t |-> "mapping", map |-> to_dict(heap, r.preset)]
                         /\ DOMAIN rp.value.map \subseteq ValidKeys

\* the raw overrides of a mapping in processing order
EntriesOf(h, m, key) ==
    IF key \in DOMAIN m /\ Truthy(h, m[key]) THEN m[key].pairs ELSE <<>>
AllEntries(h, m) == EntriesOf(h, m, "module_algo_map") \o EntriesOf(h, m, "name_algo_map")
Verdict(h, entry) ==
    validate(ALGO_REGISTRY, from_mapping(OrEmptyDict(h, entry[2]).pairs)).err

\* C8: for a raw mapping of recognized keys (its algorithm maps mappings
\* of override mappings or None), from_dict(strict=True) returns
\* a preset iff every override of module_algo_map and name_algo_map passes
\* validate(); otherwise it raises the error of the first failing override
\* (module_algo_map entries in order, then name_algo_map entries) and
\* returns nothing; from_dict(strict=False) always returns a preset.
C8_StrictFailFast ==
    (res.called /\ DOMAIN res.input \subseteq ValidKeys) =>
        LET all == AllEntries(heap, res.input)
            failing == {i \in 1..Len(all) : Verdict(heap, all[i]) # NoErr}
        IN  IF ~res.strict \/ failing = {}
            THEN res.err = NoErr
            ELSE LET first == CHOOSE i \in failing : \A j \in failing : i <= j
                 IN  /\ res.err = Verdict(heap, all[first])
                     /\ res.err.exc = "PresetValidationError"
                     /\ res.preset = PresetConfig(<<>>)

\* C8 witness: a strict parse met a valid override, then two failing ones
\* with different errors, and raised the error of the first of the two.
C8_Witness ==
    /\ res.called /\ res.strict
    /\ DOMAIN res.input = {"module_algo_map", "name_algo_map"}
    /\ res.input.module_algo_map = Dict(<<(<<"Conv2d", O_lora>>), <<"Linear", O_ia3>>>>)
    /\ res.input.name_algo_map = Dict(<<(<<"ff.net.2", O_nope>>)>>)
    /\ res.err = UnsupportedOptionErr(s_ia3, "dim")

\* the algo of every override whose algo is not None
RECURSIVE NonAbsentAlgos(_)
NonAbsentAlgos(overrides) ==
    IF overrides = <<>> THEN <<>>
    ELSE (IF overrides[1][2].algo # None THEN <<overrides[1][2].algo>> ELSE <<>>)
         \o NonAbsentAlgos(Tail(overrides))

\* C10 as stated: list_algorithms yields the algo of every override whose
\* algo is not None, once per override, module_algo_map first and then
\* name_algo_map, each in map order, and leaves the preset as it was.
C10_Original ==
    last.op = "list_algorithms" =>
        last.algos = NonAbsentAlgos(res.preset.module_algo_map)
                     \o NonAbsentAlgos(res.preset.name_algo_map)

\* C4 as stated: whatever callers did to what list_builtin_presets gave
\* them, a lookup shows every preset with its original contents.
C4_Original ==
    \A c \in Callers :
        seen[c] # NoView =>
            \A n \in DOMAIN BUILTIN_PRESET_CONFIGS :
                seen[c][n] = PresetContents(InitHeap, BUILTIN_OBJECTS[BUILTIN_PRESET_CONFIGS[n]])

\* C5 as stated: the exported "ia3" preset has name_algo_map entries for
\* "ff.net.2" and "mlp.fc2", each with train_on_input = True and
\* algo = "ia3".
C5_Original ==
    /\ "name_algo_map" \in DOMAIN PRESET["ia3"]
    /\ \A k \in {"ff.net.2", "mlp.fc2"} :
          /\ HasKey(PRESET["ia3"].name_algo_map.pairs, k)
          /\ LET e == Get(PRESET["ia3"].name_algo_map.pairs, k).pairs
             IN  /\ HasKey(e, "train_on_input") /\ Get(e, "train_on_input") = Bool(TRUE)
                 /\ HasKey(e, "algo") /\ Get(e, "algo") = Str(s_ia3)

\* C5 (amended): the exported "ia3" preset has name_algo_map entries for
\* "ff.net.2" and "mlp.fc2", each holding train_on_input = True and nothing
\* else: no algo key, the algorithm is left to the context.
C5_Ia3Export ==
    /\ "name_algo_map" \in DOMAIN PRESET["ia3"]
    /\ \A k \in {"ff.net.2", "mlp.fc2"} :
          /\ HasKey(PRESET["ia3"].name_algo_map.pairs, k)
          /\ Get(PRESET["ia3"].name_algo_map.pairs, k) =
                Dict(<<(<<"train_on_input", Bool(TRUE)>>)>>)

\* C5 witness: the export exists with exactly the two overrides while a
\* caller has already changed the catalog's "ia3" object.
C5_Witness ==
    /\ Keys(PRESET["ia3"].name_algo_map.pairs) = {"ff.net.2", "mlp.fc2"}
    /\ objects.ia3.name_algo_map # BUILTIN_OBJECTS.ia3.name_algo_map

\* C9 as stated: once from_dict has returned, nothing the caller does to
\* the raw mapping or to anything nested in it changes the preset's fields
\* or its to_dict() output.
C9_Original ==
    (res.called /\ res.err = NoErr) =>
        /\ PresetContents(heap, res.preset) = res.contents
        /\ CanonMapping(heap, to_dict(heap, res.preset)) = res.export

====
